---- MODULE Spec2Model ----
(***************************************************************************)
(* Certificate generator (src/app.py): the filename sanitizer, the greedy  *)
(* paragraph wrap, the auto-fit search for the attendee name and the batch *)
(* render / packaging loop, each as a state machine.                       *)
(*                                                                         *)
(* Text is a sequence of Unicode code points (97 is "a", 32 is a space).   *)
(* Four specifications share the variables; each one drives its own group  *)
(* and leaves the other groups at their idle values:                       *)
(*   SpecSanitize  sanitize_filename                                       *)
(*   SpecWrap      wrap_text                                               *)
(*   SpecFit       the name sizing of generate_certificates_from_inputs    *)
(*   SpecBatch     the Generate Certificates handler and the batch loop    *)
(***************************************************************************)
EXTENDS Integers, Sequences, FiniteSets, TLC

VARIABLES
    \* sanitize_filename
    san_in, san_out, san_pc,
    \* wrap_text
    text, max_width, advance, words, lines, cur, wi, wrap_pc,
    \* name sizing
    name_force_size, name_max_size, name_min_size, horiz_max_width, nw,
    chosen_size, fit_pc,
    \* Generate Certificates handler, generate_certificates_from_inputs
    template, attendees, df, signature_path, output_format,
    pc, ri, created, files, zip, result,
    \* history of the run: the image composed for each row, what happened to
    \* the signature on the last one, and the row whose save raised (0: none)
    rendered, last_sig, failed_row

sanVars  == <<san_in, san_out, san_pc>>
wrapVars == <<text, max_width, advance, words, lines, cur, wi, wrap_pc>>
fitVars  == <<name_force_size, name_max_size, name_min_size, horiz_max_width,
              nw, chosen_size, fit_pc>>
batchVars == <<template, attendees, df, signature_path, output_format,
               pc, ri, created, files, zip, result, rendered, last_sig, failed_row>>
vars     == <<sanVars, wrapVars, fitVars, batchVars>>

(***************************************************************************)
(* Bounds of the model.                                                    *)
(***************************************************************************)
MaxLen == 3
MaxPrefix == 1
MaxText == 6
MaxWrapWidth == 4
MaxSize == 4
TemplateW == 2
MaxRows == 3

(***************************************************************************)
(* Characters.                                                             *)
(***************************************************************************)
\* str.isspace / regex \s, among the code points the model meets
Whitespace == {9, 10, 11, 12, 13, 28, 29, 30, 31, 32, 133, 160}

IsSpace(c) == c \in Whitespace

IsAsciiAlnum(c) == (c >= 48 /\ c <= 57) \/ (c >= 65 /\ c <= 90) \/ (c >= 97 /\ c <= 122)

\* non-ASCII code points that are alphanumeric (str.isalnum): e-acute, the CJK
\* ideograph U+4E2D, the ligature U+FB01.  The combining acute 769 is not.
UnicodeAlnum == {233, 20013, 64257}

\* regex \w on a str pattern: Unicode alphanumerics and the underscore
IsWord(c) == IsAsciiAlnum(c) \/ c = 95 \/ c \in UnicodeAlnum

\* the class [A-Za-z0-9_.-]
IsSafeChar(c) == IsAsciiAlnum(c) \/ c \in {95, 46, 45}

\* concatenation of a sequence of sequences, by halves
RECURSIVE Flatten(_)
Flatten(ss) ==
    IF ss = <<>> THEN <<>>
    ELSE IF Len(ss) = 1 THEN ss[1]
    ELSE LET h == Len(ss) \div 2 IN
         Flatten(SubSeq(ss, 1, h)) \o Flatten(SubSeq(ss, h + 1, Len(ss)))

Repeat(c, n) == [k \in 1..n |-> c]

\* all sequences over S of length at most n
SeqUpTo(S, n) == UNION {[1..k -> S] : k \in 0..n}

(***************************************************************************)
(* sanitize_filename                                                       *)
(***************************************************************************)
\* unicodedata.normalize("NFKD", .) of one code point
NFKDChar(c) ==
    CASE c = 233   -> <<101, 769>>      \* e-acute: e + combining acute
      [] c = 64257 -> <<102, 105>>      \* ligature fi: f, i
      [] c = 160   -> <<32>>            \* no-break space: space
      [] OTHER     -> <<c>>

NFKD(s) == Flatten([k \in 1..Len(s) |-> NFKDChar(s[k])])

\* the characters re.sub(r"[^\w\s\-_.]", "", s) keeps
KeptChar(c) == IsWord(c) \/ IsSpace(c) \/ c \in {45, 95, 46}

RemoveUnsafe(s) == SelectSeq(s, KeptChar)

\* the positions of s that hold no whitespace
InkAt(s) == {k \in 1..Len(s) : ~IsSpace(s[k])}

SetMin(S) == CHOOSE x \in S : \A y \in S : x <= y
SetMax(S) == CHOOSE x \in S : \A y \in S : x >= y

\* str.strip(): leading and trailing whitespace removed
Strip(s) ==
    IF InkAt(s) = {} THEN <<>> ELSE SubSeq(s, SetMin(InkAt(s)), SetMax(InkAt(s)))

\* re.sub(r"[\s]+", "_", s): every maximal run of whitespace becomes one "_"
\* (the first character of a run becomes "_", the rest of the run goes)
CollapseSpaces(s) ==
    LET marked == [k \in 1..Len(s) |->
                     IF ~IsSpace(s[k]) THEN s[k]
                     ELSE IF k = 1 \/ ~IsSpace(s[k - 1]) THEN 95
                     ELSE 0 - 1]
        kept(c) == c >= 0
    IN SelectSeq(marked, kept)

TruncLen == 200

Unknown == <<117, 110, 107, 110, 111, 119, 110>>

\* s[:200]
Truncate(s) == SubSeq(s, 1, IF Len(s) < TruncLen THEN Len(s) ELSE TruncLen)

\* lines 55-57: the text before the slice
Cleaned(s) == CollapseSpaces(Strip(RemoveUnsafe(NFKD(s))))

sanitize_filename(s) ==
    LET t == Truncate(Cleaned(s)) IN IF t = <<>> THEN Unknown ELSE t

SanChars == {32, 45, 46, 47, 95, 97, 49, 233, 20013, 64257}
PadChars == {97, 32, 64257}

\* short strings, and strings around the truncation length
SanInputs ==
    SeqUpTo(SanChars, MaxLen)
    \cup {p \o Repeat(c, n) : p \in SeqUpTo(SanChars, MaxPrefix), c \in PadChars,
                              n \in {TruncLen - 1, TruncLen, TruncLen + 1}}

SanIdle == san_in = <<>> /\ san_out = <<>> /\ san_pc = "idle"

SanInit == san_in \in SanInputs /\ san_out = <<>> /\ san_pc = "call"

Sanitize ==
    /\ san_pc = "call"
    /\ san_out' = sanitize_filename(san_in)
    /\ san_pc' = "done"
    /\ UNCHANGED <<san_in, wrapVars, fitVars, batchVars>>

(***************************************************************************)
(* text_dimensions, wrap_text                                              *)
(***************************************************************************)
RECURSIVE SumAdvance(_, _)
SumAdvance(s, adv) == IF s = <<>> THEN 0 ELSE adv[Head(s)] + SumAdvance(Tail(s), adv)

\* the width text_dimensions returns: the extent of the whole string under the
\* font, here the font's advance of each glyph
text_dimensions(s, adv) == SumAdvance(s, adv)

\* str.split(): the maximal runs of non-whitespace
RECURSIVE SplitFrom(_, _)
SplitFrom(s, w) ==
    IF s = <<>> THEN (IF w = <<>> THEN <<>> ELSE <<w>>)
    ELSE IF IsSpace(Head(s))
         THEN (IF w = <<>> THEN <<>> ELSE <<w>>) \o SplitFrom(Tail(s), <<>>)
         ELSE SplitFrom(Tail(s), Append(w, Head(s)))

Split(s) == SplitFrom(s, <<>>)

\* " ".join(ls)
RECURSIVE JoinSpace(_)
JoinSpace(ls) ==
    IF ls = <<>> THEN <<>>
    ELSE IF Len(ls) = 1 THEN ls[1]
    ELSE ls[1] \o <<32>> \o JoinSpace(Tail(ls))

\* line 79: test = (cur + " " + w).strip()
TestLine(c, w) == Strip(c \o <<32>> \o w)

\* line 81
WrapFits_Loose(tw, mw) == tw <= mw + 1
WrapFits(tw, mw) == tw <= mw

\* lines 87-88
Flush_Never(ls, c) == ls
Flush(ls, c) == IF c # <<>> THEN Append(ls, c) ELSE ls

WrapChars == {97, 98, 32}

WrapIdle ==
    /\ text = <<>> /\ max_width = 0 /\ advance = <<>> /\ words = <<>>
    /\ lines = <<>> /\ cur = <<>> /\ wi = 0 /\ wrap_pc = "idle"

WrapInit ==
    /\ text \in SeqUpTo(WrapChars, MaxText)
    /\ max_width \in 0..MaxWrapWidth
    /\ advance \in {[c \in WrapChars |-> IF c = 32 THEN 1 ELSE IF c = 97 THEN a ELSE b] :
                        a \in 1..2, b \in 1..2}
    /\ words = <<>> /\ lines = <<>> /\ cur = <<>> /\ wi = 0
    /\ wrap_pc = "call"

\* lines 76-77
WrapBegin ==
    /\ wrap_pc = "call"
    /\ words' = Split(text)
    /\ lines' = <<>> /\ cur' = <<>> /\ wi' = 1
    /\ wrap_pc' = "loop"
    /\ UNCHANGED <<text, max_width, advance, sanVars, fitVars, batchVars>>

\* lines 78-82: the word fits on the current line
WrapAppend ==
    /\ wrap_pc = "loop" /\ wi <= Len(words)
    /\ LET test == TestLine(cur, words[wi]) IN
        /\ WrapFits(text_dimensions(test, advance), max_width)
        /\ cur' = test
    /\ wi' = wi + 1
    /\ UNCHANGED <<text, max_width, advance, words, lines, wrap_pc, sanVars, fitVars, batchVars>>

\* lines 78-80, 83-86: it does not; close the line and start one with the word
WrapBreak ==
    /\ wrap_pc = "loop" /\ wi <= Len(words)
    /\ LET test == TestLine(cur, words[wi]) IN
        ~WrapFits(text_dimensions(test, advance), max_width)
    /\ lines' = (IF cur # <<>> THEN Append(lines, cur) ELSE lines)
    /\ cur' = words[wi]
    /\ wi' = wi + 1
    /\ UNCHANGED <<text, max_width, advance, words, wrap_pc, sanVars, fitVars, batchVars>>

\* lines 87-89
WrapReturn ==
    /\ wrap_pc = "loop" /\ wi > Len(words)
    /\ lines' = Flush(lines, cur)
    /\ wrap_pc' = "done"
    /\ UNCHANGED <<text, max_width, advance, words, cur, wi, sanVars, fitVars, batchVars>>

(***************************************************************************)
(* Name sizing, lines 119-132.  A font is its size; nw[size] is the width  *)
(* text_dimensions measures for the name at that size.  chosen_size 0 is   *)
(* chosen_font = None.                                                     *)
(***************************************************************************)
Sizes == 1..MaxSize

\* line 128
NameFits_Strict(w, mw) == w < mw
NameFits(w, mw) == w <= mw

\* lines 124-130: for size in range(max, min - 1, -1), first fit wins; 0 if none
RECURSIVE Search(_, _, _, _)
Search(size, lo, w, mw) ==
    IF size < lo THEN 0
    ELSE IF NameFits(w[size], mw) THEN size
    ELSE Search(size - 1, lo, w, mw)

FitIdle ==
    /\ name_force_size = 0 /\ name_max_size = 0 /\ name_min_size = 0
    /\ horiz_max_width = 0 /\ nw = <<>> /\ chosen_size = 0 /\ fit_pc = "idle"

\* name_force_size 0 is "no override" (None, or 0)
FitInit ==
    /\ name_force_size \in 0..MaxSize
    /\ name_max_size \in Sizes
    /\ name_min_size \in Sizes
    /\ \E adjust \in {0, TemplateW, TemplateW + 1} : horiz_max_width = TemplateW - adjust
    /\ nw \in [Sizes -> {x \in {horiz_max_width - 1, horiz_max_width, horiz_max_width + 1} : x >= 0}]
    /\ chosen_size = 0
    /\ fit_pc = "call"

\* lines 121-122
FitForced ==
    /\ fit_pc = "call"
    /\ name_force_size # 0
    /\ chosen_size' = name_force_size
    /\ fit_pc' = "done"
    /\ UNCHANGED <<name_force_size, name_max_size, name_min_size, horiz_max_width, nw,
                   sanVars, wrapVars, batchVars>>

\* lines 123-130: the search finds a size
FitFound ==
    /\ fit_pc = "call"
    /\ name_force_size = 0
    /\ Search(name_max_size, name_min_size, nw, horiz_max_width) # 0
    /\ chosen_size' = Search(name_max_size, name_min_size, nw, horiz_max_width)
    /\ fit_pc' = "done"
    /\ UNCHANGED <<name_force_size, name_max_size, name_min_size, horiz_max_width, nw,
                   sanVars, wrapVars, batchVars>>

\* lines 123-132: it finds none
FitFallback ==
    /\ fit_pc = "call"
    /\ name_force_size = 0
    /\ Search(name_max_size, name_min_size, nw, horiz_max_width) = 0
    /\ chosen_size' = name_min_size
    /\ fit_pc' = "done"
    /\ UNCHANGED <<name_force_size, name_max_size, name_min_size, horiz_max_width, nw,
                   sanVars, wrapVars, batchVars>>

(***************************************************************************)
(* The Generate Certificates handler (lines 311-383) and                   *)
(* generate_certificates_from_inputs (lines 98-176).                       *)
(*                                                                         *)
(* template, attendees: what is at template_path / attendees_path:         *)
(*   "missing" (empty path or no such file), "unreadable" (a file that     *)
(*   cannot be opened as an image / parsed as a table), "ok".              *)
(* signature_path: "" (none given), "missing" (no such file), "exists".    *)
(* df: the table read, its columns and its rows (a row maps each column    *)
(*   to its text).                                                         *)
(* files: the output directory, path -> file content.                      *)
(***************************************************************************)
RequiredColumns == {"Name", "Webinar Name", "Webinar Date"}

ColumnValues(c) ==
    CASE c = "Name"         -> {<<97, 32, 98>>, <<97, 95, 98>>, <<99>>}  \* "a b", "a_b", "c"
      [] c = "Webinar Name" -> {<<119>>}                                 \* "w"
      [] c = "Webinar Date" -> {<<100>>}                                 \* "d"

AllValues == UNION {ColumnValues(c) : c \in RequiredColumns}

RowsOver(cols) == {r \in [cols -> AllValues] : \A c \in cols : r[c] \in ColumnValues(c)}

\* the tables a read can produce
Frames ==
    UNION {{[columns |-> cols, rows |-> rs] : rs \in SeqUpTo(RowsOver(cols), MaxRows)} :
              cols \in SUBSET RequiredColumns}

NoFrame == [columns |-> {}, rows |-> <<>>]

\* lines 328-331: the required columns the table lacks
MissingColumns_NoDate(cols) == {"Name", "Webinar Name"} \ cols
MissingColumns(cols) == RequiredColumns \ cols

OutDir == <<111, 117, 116>>                                         \* "out"
ZipName == <<99, 101, 114, 116, 105, 102, 105, 99, 97, 116, 101, 115, 46, 122, 105, 112>>

\* out_dir / name
PathJoin(dir, name) == dir \o <<47>> \o name

\* Path.name: what follows the last "/"
BaseName(path) ==
    LET slashes == {k \in 1..Len(path) : path[k] = 47} IN
    IF slashes = {} THEN path ELSE SubSeq(path, SetMax(slashes) + 1, Len(path))

\* config['output_format'].lower()
Extension(fmt) == IF fmt = "PNG" THEN <<112, 110, 103>> ELSE <<106, 112, 101, 103>>

\* lines 106-108
NameOf(row) == Strip(row["Name"])
WebinarOf(row) == Strip(row["Webinar Name"])
DateOf(row) == Strip(row["Webinar Date"])

\* line 166
FileName(row, fmt) ==
    sanitize_filename(WebinarOf(row)) \o <<95>> \o sanitize_filename(DateOf(row))
        \o <<95>> \o sanitize_filename(NameOf(row)) \o <<46>> \o Extension(fmt)

\* line 167
OutPath(row, fmt) == PathJoin(OutDir, FileName(row, fmt))

\* lines 152-163: what can happen to the overlay on one row
SigOutcomes(sp) ==
    IF sp = "exists" THEN {"pasted", "open_failed", "resize_failed", "paste_failed"}
    ELSE {"skipped"}

\* whether the image carries the signature after lines 152-163
SignaturePasted_Partial(sp, outcome) == sp = "exists" /\ outcome \in {"pasted", "paste_failed"}
SignaturePasted(sp, outcome) == sp = "exists" /\ outcome = "pasted"

\* lines 110-163: the certificate of a row: the texts drawn on the copy of the
\* template and whether the signature is on it
Compose(row, signed) ==
    [webinar |-> WebinarOf(row), name |-> NameOf(row), date |-> DateOf(row),
     signed |-> signed]

\* line 168: the file img.save writes
Encoded(img, fmt) == [image |-> img, format |-> fmt, complete |-> TRUE]

\* what a save that raised may leave at its path
Damaged(img, fmt) == [image |-> img, format |-> fmt, complete |-> FALSE]

WriteFile(fs, path, data) ==
    [q \in DOMAIN fs \cup {path} |-> IF q = path THEN data ELSE fs[q]]

\* line 175: arcname=f.name
ArcName_FullPath(path) == path
ArcName(path) == BaseName(path)

\* lines 173-175
ZipEntries(paths, fs) == [k \in 1..Len(paths) |-> [name |-> ArcName(paths[k]), data |-> fs[paths[k]]]]

\* extraction: of the entries of one name, the last one written wins
Extract(entries, name) ==
    entries[SetMax({k \in 1..Len(entries) : entries[k].name = name})].data

NoZip == [exists |-> FALSE, entries |-> <<>>]
NoResult == [returned |-> FALSE, created |-> <<>>, zip_path |-> <<>>]

BatchIdle ==
    /\ template = "ok" /\ attendees = "ok" /\ df = NoFrame
    /\ signature_path = "" /\ output_format = "PNG"
    /\ pc = "off" /\ ri = 0 /\ created = <<>> /\ files = <<>>
    /\ zip = NoZip /\ result = NoResult
    /\ rendered = <<>> /\ last_sig = "none" /\ failed_row = 0

BatchInit ==
    /\ template \in {"missing", "unreadable", "ok"}
    /\ attendees \in {"missing", "unreadable", "ok"}
    /\ signature_path \in {"", "missing", "exists"}
    /\ output_format \in {"PNG", "JPEG"}
    /\ df = NoFrame
    /\ pc = "idle" /\ ri = 0 /\ created = <<>> /\ files = <<>>
    /\ zip = NoZip /\ result = NoResult
    /\ rendered = <<>> /\ last_sig = "none" /\ failed_row = 0

others == <<sanVars, wrapVars, fitVars>>

\* lines 313-314
HaltTemplateNotFound ==
    /\ pc = "idle"
    /\ template = "missing"
    /\ pc' = "error"
    /\ UNCHANGED <<template, attendees, df, signature_path, output_format, ri, created,
                   files, zip, result, rendered, last_sig, failed_row, others>>

\* lines 315-316
HaltAttendeesNotFound ==
    /\ pc = "idle"
    /\ template # "missing"
    /\ attendees = "missing"
    /\ pc' = "error"
    /\ UNCHANGED <<template, attendees, df, signature_path, output_format, ri, created,
                   files, zip, result, rendered, last_sig, failed_row, others>>

\* lines 319-326: the read raises
HaltReadFailed ==
    /\ pc = "idle"
    /\ template # "missing"
    /\ attendees = "unreadable"
    /\ pc' = "error"
    /\ UNCHANGED <<template, attendees, df, signature_path, output_format, ri, created,
                   files, zip, result, rendered, last_sig, failed_row, others>>

\* lines 319-323: the read returns a table
ReadAttendees ==
    /\ pc = "idle"
    /\ template # "missing"
    /\ attendees = "ok"
    /\ df' \in Frames
    /\ pc' = "read"
    /\ UNCHANGED <<template, attendees, signature_path, output_format, ri, created,
                   files, zip, result, rendered, last_sig, failed_row, others>>

\* lines 328-331
HaltMissingColumn ==
    /\ pc = "read"
    /\ MissingColumns(df.columns) # {}
    /\ pc' = "error"
    /\ UNCHANGED <<template, attendees, df, signature_path, output_format, ri, created,
                   files, zip, result, rendered, last_sig, failed_row, others>>

\* lines 333-383, 99-101: Image.open raises on a file that is no image
OpenTemplateFails ==
    /\ pc = "read"
    /\ MissingColumns(df.columns) = {}
    /\ template = "unreadable"
    /\ pc' = "error"
    /\ UNCHANGED <<template, attendees, df, signature_path, output_format, ri, created,
                   files, zip, result, rendered, last_sig, failed_row, others>>

\* lines 333-383, 99-103
BeginBatch ==
    /\ pc = "read"
    /\ MissingColumns(df.columns) = {}
    /\ template = "ok"
    /\ created' = <<>>
    /\ ri' = 1
    /\ pc' = "rows"
    /\ UNCHANGED <<template, attendees, df, signature_path, output_format,
                   files, zip, result, rendered, last_sig, failed_row, others>>

\* lines 105-169: one row, composed, saved and recorded
RowSaved ==
    /\ pc = "rows" /\ ri <= Len(df.rows)
    /\ \E outcome \in SigOutcomes(signature_path) :
        LET row  == df.rows[ri]
            img  == Compose(row, SignaturePasted(signature_path, outcome))
            path == OutPath(row, output_format)
        IN /\ files' = WriteFile(files, path, Encoded(img, output_format))
           /\ created' = Append(created, path)
           /\ rendered' = Append(rendered, img)
           /\ last_sig' = outcome
    /\ ri' = ri + 1
    /\ UNCHANGED <<template, attendees, df, signature_path, output_format, pc,
                   zip, result, failed_row, others>>

\* the same failure, swallowed: the loop goes on to the next row
RowSaveFails_Skip ==
    /\ pc = "rows" /\ ri <= Len(df.rows)
    /\ \E outcome \in SigOutcomes(signature_path) :
        LET row  == df.rows[ri]
            img  == Compose(row, SignaturePasted(signature_path, outcome))
        IN /\ rendered' = Append(rendered, img)
           /\ last_sig' = outcome
    /\ failed_row' = ri
    /\ ri' = ri + 1
    /\ UNCHANGED <<template, attendees, df, signature_path, output_format, pc, created,
                   files, zip, result, others>>

\* lines 105-168: img.save raises; the exception leaves the function.  The file
\* at the path is as before, or holds what was written until the failure.
RowSaveFails ==
    /\ pc = "rows" /\ ri <= Len(df.rows)
    /\ \E outcome \in SigOutcomes(signature_path), damaged \in BOOLEAN :
        LET row  == df.rows[ri]
            img  == Compose(row, SignaturePasted(signature_path, outcome))
            path == OutPath(row, output_format)
        IN /\ files' = (IF damaged THEN WriteFile(files, path, Damaged(img, output_format))
                        ELSE files)
           /\ rendered' = Append(rendered, img)
           /\ last_sig' = outcome
    /\ failed_row' = ri
    /\ pc' = "aborted"
    /\ UNCHANGED <<template, attendees, df, signature_path, output_format, ri, created,
                   zip, result, others>>

\* lines 171-176
Package ==
    /\ pc = "rows" /\ ri > Len(df.rows)
    /\ zip' = [exists |-> TRUE, entries |-> ZipEntries(created, files)]
    /\ result' = [returned |-> TRUE, created |-> created, zip_path |-> PathJoin(OutDir, ZipName)]
    /\ pc' = "done"
    /\ UNCHANGED <<template, attendees, df, signature_path, output_format, ri, created,
                   files, rendered, last_sig, failed_row, others>>

\* lines 171-175: writing the archive raises, before the file is made or
\* after some entries
PackageFails ==
    /\ pc = "rows" /\ ri > Len(df.rows)
    /\ \/ zip' = NoZip
       \/ \E n \in 0..Len(created) :
            zip' = [exists |-> TRUE, entries |-> SubSeq(ZipEntries(created, files), 1, n)]
    /\ pc' = "aborted"
    /\ UNCHANGED <<template, attendees, df, signature_path, output_format, ri, created,
                   files, result, rendered, last_sig, failed_row, others>>

(***************************************************************************)
(* Specifications.                                                         *)
(***************************************************************************)
InitSanitize == SanInit /\ WrapIdle /\ FitIdle /\ BatchIdle
NextSanitize == Sanitize
SpecSanitize == InitSanitize /\ [][NextSanitize]_vars

InitWrap == SanIdle /\ WrapInit /\ FitIdle /\ BatchIdle
NextWrap == WrapBegin \/ WrapAppend \/ WrapBreak \/ WrapReturn
SpecWrap == InitWrap /\ [][NextWrap]_vars

InitFit == SanIdle /\ WrapIdle /\ FitInit /\ BatchIdle
NextFit == FitForced \/ FitFound \/ FitFallback
SpecFit == InitFit /\ [][NextFit]_vars

InitBatch == SanIdle /\ WrapIdle /\ FitIdle /\ BatchInit
NextBatch ==
    \/ HaltTemplateNotFound \/ HaltAttendeesNotFound \/ HaltReadFailed
    \/ ReadAttendees \/ HaltMissingColumn \/ OpenTemplateFails \/ BeginBatch
    \/ RowSaved \/ RowSaveFails \/ Package \/ PackageFails
SpecBatch == InitBatch /\ [][NextBatch]_vars

(***************************************************************************)
(* Properties.                                                             *)
(***************************************************************************)

\* the sizes of the configured range at which the name fits
FitSet == {z \in name_min_size..name_max_size : nw[z] <= horiz_max_width}

\* C1: with no override the chosen size is the largest size of
\* [min_size, max_size] whose width is <= max_width, or min_size if none fits,
\* and it lies in [min_size, max_size]; with an override it is the override.
C1_Original ==
    fit_pc = "done" =>
        /\ name_force_size = 0 =>
             chosen_size = (IF FitSet # {} THEN SetMax(FitSet) ELSE name_min_size)
        /\ name_force_size = 0 => chosen_size \in name_min_size..name_max_size
        /\ name_force_size # 0 => chosen_size = name_force_size

\* C1 as amended: the chosen size lies in [min_size, max_size] when that range
\* is not empty (min_size <= max_size); when min_size > max_size nothing is
\* probed and the chosen size is min_size.
C1_AutoFit ==
    fit_pc = "done" =>
        /\ name_force_size = 0 =>
             chosen_size = (IF FitSet # {} THEN SetMax(FitSet) ELSE name_min_size)
        /\ (name_force_size = 0 /\ name_min_size <= name_max_size) =>
             chosen_size \in name_min_size..name_max_size
        /\ (name_force_size = 0 /\ name_min_size > name_max_size) =>
             chosen_size = name_min_size
        /\ name_force_size # 0 => chosen_size = name_force_size

\* a search that passed over a size too wide and stopped at a width equal to
\* max_width, above min_size
C1_Witness ==
    /\ fit_pc = "done" /\ name_force_size = 0
    /\ name_min_size < chosen_size /\ chosen_size < name_max_size
    /\ nw[chosen_size] = horiz_max_width
    /\ nw[name_max_size] > horiz_max_width
    /\ nw[name_min_size] > horiz_max_width

\* C2: the result of sanitize_filename holds only characters of
\* [A-Za-z0-9_.-], is at most 200 long and is never empty.
C2_SanitizeSafe ==
    san_pc = "done" =>
        /\ \A k \in 1..Len(san_out) : IsSafeChar(san_out[k])
        /\ Len(san_out) <= TruncLen
        /\ san_out # <<>>

\* no field of the row is cut by the slice at 200
Untruncated(row) == \A c \in RequiredColumns : Len(Cleaned(Strip(row[c]))) <= TruncLen

\* C3: two rows that differ in name, event or date, none cut by the
\* truncation, get two distinct output filenames.
C3_DistinctFilenames ==
    \A i, j \in 1..Len(created) :
        (df.rows[i] # df.rows[j] /\ Untruncated(df.rows[i]) /\ Untruncated(df.rows[j]))
            => BaseName(created[i]) # BaseName(created[j])

\* C4: after a completed run over n rows the output directory holds n image
\* files, each row's certificate under its own filename.
C4_OneFilePerRow ==
    pc = "done" =>
        /\ Cardinality(DOMAIN files) = Len(df.rows)
        /\ \A k \in 1..Len(df.rows) :
              /\ OutPath(df.rows[k], output_format) \in DOMAIN files
              /\ files[OutPath(df.rows[k], output_format)] = Encoded(rendered[k], output_format)

\* C5: after all rows, the archive certificates.zip exists in the output
\* directory and every returned path has an entry under its base filename (no
\* directory part) that extracts to the file persisted at that path.
C5_Packaging ==
    pc = "done" =>
        /\ zip.exists
        /\ result.returned
        /\ result.zip_path = OutDir \o <<47>> \o ZipName
        /\ \A k \in 1..Len(result.created) :
              LET path == result.created[k] IN
              /\ \E e \in 1..Len(zip.entries) :
                    /\ zip.entries[e].name = BaseName(path)
                    /\ \A x \in 1..Len(zip.entries[e].name) : zip.entries[e].name[x] # 47
              /\ path \in DOMAIN files
              /\ Extract(zip.entries, BaseName(path)) = files[path]

\* a finished run that returned two different paths
C5_Witness ==
    /\ pc = "done" /\ Len(result.created) >= 2
    /\ result.created[1] # result.created[2]
    /\ Len(zip.entries) >= 2

\* C6: the lines of wrap_text joined with single spaces are the words of the
\* text joined with single spaces, and no line is empty.
C6_WordsPreserved ==
    wrap_pc = "done" =>
        /\ JoinSpace(lines) = JoinSpace(Split(text))
        /\ \A k \in 1..Len(lines) : lines[k] # <<>>

\* a wrap that broke the text and put two words on a line
C6_Witness ==
    /\ wrap_pc = "done" /\ Len(lines) >= 2
    /\ \E k \in 1..Len(lines) : Len(Split(lines[k])) >= 2

\* C7: every line of wrap_text measures at most max_width, except a line of
\* one word that is itself wider than max_width.
C7_WidthBound ==
    wrap_pc = "done" =>
        \A k \in 1..Len(lines) :
            \/ text_dimensions(lines[k], advance) <= max_width
            \/ /\ Len(Split(lines[k])) = 1
               /\ lines[k] \in {words[x] : x \in 1..Len(words)}
               /\ text_dimensions(lines[k], advance) > max_width

\* a wrap with an overflowing one-word line and a full two-word line
C7_Witness ==
    /\ wrap_pc = "done"
    /\ \E k \in 1..Len(lines) :
          Len(Split(lines[k])) = 1 /\ text_dimensions(lines[k], advance) > max_width
    /\ \E k \in 1..Len(lines) :
          Len(Split(lines[k])) >= 2 /\ text_dimensions(lines[k], advance) = max_width

\* C8: a row whose signature is absent, missing or fails to load, resize or
\* paste is composed as with no signature, saved and recorded, and the loop
\* goes on.  (Stated of the row handled last; the history only grows.)
C8_SignatureSoftFailure ==
    /\ (rendered # <<>> /\ last_sig # "pasted") =>
          rendered[Len(rendered)] = Compose(df.rows[Len(rendered)], FALSE)
    /\ (pc \in {"rows", "done"} /\ failed_row = 0) =>
          /\ Len(created) = Len(rendered)
          /\ pc = "rows" => ri = Len(created) + 1
          /\ created # <<>> =>
                /\ created[Len(created)] = OutPath(df.rows[Len(created)], output_format)
                /\ files[created[Len(created)]] =
                      Encoded(rendered[Len(created)], output_format)

\* the first row got the signature, on the second the paste failed, the row
\* was saved and a third row is next
C8_Witness ==
    /\ signature_path = "exists" /\ pc = "rows"
    /\ last_sig = "paste_failed"
    /\ Len(created) = 2 /\ ri = 3 /\ Len(df.rows) = 3
    /\ rendered[1].signed /\ ~rendered[2].signed
    /\ files[created[2]] = Encoded(Compose(df.rows[2], FALSE), output_format)

\* a precondition of the run does not hold
PreconditionFails ==
    \/ template # "ok"
    \/ attendees # "ok"
    \/ pc # "idle" /\ ~(RequiredColumns \subseteq df.columns)

\* C9: with a missing column, or a missing or unreadable template or roster,
\* the run ends in an error before any row: nothing is rendered or written and
\* no archive is made.
C9_Preconditions ==
    PreconditionFails =>
        /\ pc \in {"idle", "read", "error"}
        /\ rendered = <<>> /\ created = <<>> /\ files = <<>>
        /\ zip = NoZip /\ result = NoResult

\* a readable roster of rows that lacks the date column, refused
C9_Witness ==
    /\ pc = "error" /\ template = "ok" /\ attendees = "ok"
    /\ df.columns = {"Name", "Webinar Name"}
    /\ df.rows # <<>>

\* C10: rows are handled in roster order; when the save of row k raises, no
\* later row is rendered or saved, no archive is made, nothing is returned and
\* the files of the rows before k stay in the output directory.
C10_WriteFailureAborts ==
    /\ \A j \in 1..Len(created) : created[j] = OutPath(df.rows[j], output_format)
    /\ failed_row # 0 =>
          /\ pc = "aborted"
          /\ Len(created) = failed_row - 1
          /\ Len(rendered) = failed_row
          /\ zip = NoZip
          /\ result = NoResult
          /\ \A j \in 1..Len(created) :
                /\ created[j] \in DOMAIN files
                /\ created[j] # OutPath(df.rows[failed_row], output_format) =>
                      files[created[j]].complete

\* the save of the second of three rows raised
C10_Witness ==
    /\ pc = "aborted" /\ failed_row = 2 /\ Len(df.rows) = 3
    /\ created[1] \in DOMAIN files

====
